---- MODULE Spec2Model ----
(***************************************************************************)
(* Model of the kinematic event-detection and interval-measurement engine  *)
(* of src/speedSL.py: the two crossing locators                            *)
(* (find_crossing_time_with_interpolation, find_nearest_value) and the     *)
(* three measurements built on them (calculate_speed_acceleration,         *)
(* calculate_rpm_acceleration, calculate_distance_time).                   *)
(*                                                                         *)
(* Numbers.  The code computes in IEEE doubles; the model computes in      *)
(* exact rationals <<n, d>> (d > 0, lowest terms), so that equal numbers   *)
(* are equal values.  Rounding of doubles is not modelled.                 *)
(*                                                                         *)
(* Indices.  Python sequences are 0-based; At(s, i) reads the element the  *)
(* code calls s[i], so index arithmetic reads as in the source.            *)
(***************************************************************************)
EXTENDS Integers, Sequences, FiniteSets, TLC

VARIABLES df, call, ret, exc

vars == <<df, call, ret, exc>>

(***************************************************************************)
(* Bounds of the enumerated inputs.                                        *)
(***************************************************************************)
MaxLen == 3
MaxTick == 2
MaxSpeed == 3
MaxRpm == 1
MaxDist == 4
MaxSlope == 3
MaxLinStart == 1
MaxLinLen == 4

(***************************************************************************)
(* Exact rational arithmetic standing for the code's float arithmetic.     *)
(***************************************************************************)
\* LET x == e IN F(x), with e computed once and held as a value
Let(e, F(_)) == CHOOSE r \in {F(x) : x \in {e}} : TRUE

\* the sequence s with every element computed
Array(s) == SubSeq(s, 1, Len(s))

Abs(n) == IF n < 0 THEN -n ELSE n

RECURSIVE GCD(_, _)
GCD(a, b) == IF b = 0 THEN a ELSE Let(a % b, LAMBDA m : GCD(b, m))

NormV(n, d) ==
    IF n = 0 THEN <<0, 1>>
    ELSE Let(GCD(Abs(n), Abs(d)) * (IF d < 0 THEN -1 ELSE 1),
             LAMBDA g : <<n \div g, d \div g>>)

Norm(n, d) == Let(<<n, d>>, LAMBDA p : NormV(p[1], p[2]))

R(n) == <<n, 1>>
RAdd(a, b) == Let(<<a, b>>, LAMBDA p :
                  Norm(p[1][1] * p[2][2] + p[2][1] * p[1][2], p[1][2] * p[2][2]))
RSub(a, b) == Let(<<a, b>>, LAMBDA p :
                  Norm(p[1][1] * p[2][2] - p[2][1] * p[1][2], p[1][2] * p[2][2]))
RMul(a, b) == Let(<<a, b>>, LAMBDA p : Norm(p[1][1] * p[2][1], p[1][2] * p[2][2]))
RDiv(a, b) == Let(<<a, b>>, LAMBDA p : Norm(p[1][1] * p[2][2], p[1][2] * p[2][1]))
RLt(a, b) == Let(<<a, b>>, LAMBDA p : p[1][1] * p[2][2] < p[2][1] * p[1][2])
RLe(a, b) == Let(<<a, b>>, LAMBDA p : p[1][1] * p[2][2] <= p[2][1] * p[1][2])
RGt(a, b) == RLt(b, a)
RGe(a, b) == RLe(b, a)
RAbs(a) == Let(a, LAMBDA p : <<Abs(p[1]), p[2]>>)

(***************************************************************************)
(* Python values.                                                          *)
(***************************************************************************)
NoneT == <<>>                      \* None as an element of a returned tuple
None == [tag |-> "None"]           \* None as the value a measurement returns
IndexError == <<"IndexError">>     \* an index out of range, raised
KeyError == <<"KeyError">>         \* a column the frame lacks, raised

At(s, i) == s[i + 1]

TimeMs == "Time [ms]"
TimeS == "Time [s]"
SpeedCol == "Vehicle Speed [km/h]"
RpmCol == "Engine Speed (RPM) [1/min]"

\* df[column].values
Values(d, column) == [i \in 1..Len(d) |-> d[i][column]]

\* df[column] raises KeyError: the frame lacks one of the columns
Missing(d, columns) == \E i \in 1..Len(d) : \E c \in columns : c \notin DOMAIN d[i]

np_any(mask) == \E i \in 1..Len(mask) : mask[i]

\* index (0-based) of the first True; 0 when there is none
np_argmax(mask) ==
    IF np_any(mask)
    THEN CHOOSE i \in 0..(Len(mask) - 1) :
             At(mask, i) /\ \A j \in 0..(i - 1) : ~At(mask, j)
    ELSE 0

\* Mask with the comparisons strict: values > target_value, values < target_value
Mask_Strict(values, target_value, direction) ==
    Array([i \in 1..Len(values) |->
              IF direction = "up" THEN RGt(values[i], target_value)
                                  ELSE RLt(values[i], target_value)])

\* values >= target_value (up), values <= target_value (down)
Mask(values, target_value, direction) ==
    Array([i \in 1..Len(values) |->
              IF direction = "up" THEN RGe(values[i], target_value)
                                  ELSE RLe(values[i], target_value)])

\* InterpolatedTime with the fraction measured from value_after
InterpolatedTime_FromAfter(target_value, value_before, value_after, time_before, time_after) ==
    IF value_after = value_before THEN time_before
    ELSE RAdd(time_before,
              RMul(RDiv(RSub(value_after, target_value), RSub(value_after, value_before)),
                   RSub(time_after, time_before)))

\* if value_after == value_before: time_before, else time_before + fraction * (...)
InterpolatedTime(target_value, value_before, value_after, time_before, time_after) ==
    IF value_after = value_before THEN time_before
    ELSE RAdd(time_before,
              RMul(RDiv(RSub(target_value, value_before), RSub(value_after, value_before)),
                   RSub(time_after, time_before)))

find_crossing_time_with_interpolation(d, target_value, value_column, time_column, direction) ==
    Let(<<Array(Values(d, value_column)), Array(Values(d, time_column))>>, LAMBDA c :
        \* c[1] is values, c[2] is times
        Let(Mask(c[1], target_value, direction), LAMBDA mask :
            IF ~np_any(mask) THEN <<NoneT, NoneT, NoneT>>
            ELSE
            Let(np_argmax(mask), LAMBDA first_idx :
                IF first_idx = 0 THEN <<At(c[2], 0), At(c[1], 0), At(c[1], 0)>>
                ELSE <<InterpolatedTime(target_value,
                                        At(c[1], first_idx - 1), At(c[1], first_idx),
                                        At(c[2], first_idx - 1), At(c[2], first_idx)),
                       At(c[1], first_idx - 1),
                       At(c[1], first_idx)>>)))

\* FallbackIdx with the directions exchanged
FallbackIdx_Swapped(values, direction) == IF direction = "up" THEN 0 ELSE Len(values) - 1

\* the sample returned when no value satisfies the comparison
FallbackIdx(values, direction) == IF direction = "up" THEN Len(values) - 1 ELSE 0

\* PrevIsNearer with ties going to the predecessor: dist_prev <= dist_curr
PrevIsNearer_OrEqual(values, first_idx, target_value) ==
    /\ first_idx > 0
    /\ RLe(RAbs(RSub(At(values, first_idx - 1), target_value)),
           RAbs(RSub(At(values, first_idx), target_value)))

\* first_idx > 0 and dist_prev < dist_curr
PrevIsNearer(values, first_idx, target_value) ==
    /\ first_idx > 0
    /\ RLt(RAbs(RSub(At(values, first_idx - 1), target_value)),
           RAbs(RSub(At(values, first_idx), target_value)))

find_nearest_value(d, target_value, value_column, time_column, direction) ==
    Let(<<Array(Values(d, value_column)), Array(Values(d, time_column))>>, LAMBDA c :
        \* c[1] is values, c[2] is times
        Let(Mask(c[1], target_value, direction), LAMBDA mask :
            IF ~np_any(mask)
            THEN IF Len(c[1]) = 0 THEN IndexError
                 ELSE Let(FallbackIdx(c[1], direction), LAMBDA idx :
                          <<At(c[2], idx), At(c[1], idx), At(c[1], idx)>>)
            ELSE
            Let(np_argmax(mask), LAMBDA first_idx :
                Let(IF PrevIsNearer(c[1], first_idx, target_value)
                    THEN first_idx - 1 ELSE first_idx, LAMBDA idx :
                    <<At(c[2], idx), At(c[1], idx), At(c[1], idx)>>))))

(***************************************************************************)
(* numpy helpers of the measurements.                                      *)
(***************************************************************************)
RECURSIVE np_sum(_)
np_sum(s) == IF Len(s) = 0 THEN R(0) ELSE RAdd(np_sum(SubSeq(s, 1, Len(s) - 1)), s[Len(s)])

np_cumsum(s) == [i \in 1..Len(s) |-> np_sum(SubSeq(s, 1, i))]

\* np.diff(times)
np_diff(s) == [i \in 1..(Len(s) - 1) |-> RSub(s[i + 1], s[i])]

\* PairAverages without the halving: speeds_ms[:-1] + speeds_ms[1:]
PairAverages_Sum(s) == [i \in 1..(Len(s) - 1) |-> RAdd(s[i], s[i + 1])]

\* (speeds_ms[:-1] + speeds_ms[1:]) / 2
PairAverages(s) == [i \in 1..(Len(s) - 1) |-> RDiv(RAdd(s[i], s[i + 1]), R(2))]

\* avg_speeds * time_diffs
Products(a, b) == [i \in 1..Len(a) |-> RMul(a[i], b[i])]

\* SpeedsMs reading the RPM channel: df['Engine Speed (RPM) [1/min]'].values / 3.6
SpeedsMs_Rpm(d) == [i \in 1..Len(d) |-> RDiv(d[i][RpmCol], <<18, 5>>)]

\* df[column].values / 3.6
SpeedsMs(d) == [i \in 1..Len(d) |-> RDiv(d[i][SpeedCol], <<18, 5>>)]

\* np_interp holding the value of the last sample at or before x, not interpolating
np_interp_Step(x, xp, fp) ==
    LET n == Len(xp)
    IN  IF RLt(x, At(xp, 0)) THEN At(fp, 0)
        ELSE LET j == CHOOSE i \in 0..(n - 1) :
                          /\ RLe(At(xp, i), x)
                          /\ \A k \in (i + 1)..(n - 1) : RGt(At(xp, k), x)
             IN  At(fp, j)

\* np.interp(x, xp, fp) for a non-empty, non-decreasing xp
np_interp(x, xp, fp) ==
    LET n == Len(xp)
    IN  IF RLt(x, At(xp, 0)) THEN At(fp, 0)
        ELSE IF RGe(x, At(xp, n - 1)) THEN At(fp, n - 1)
        ELSE
        LET j == CHOOSE i \in 0..(n - 2) :
                     RLe(At(xp, i), x) /\ RLt(x, At(xp, i + 1))
        IN  IF At(xp, j) = x THEN At(fp, j)
            ELSE RAdd(At(fp, j),
                      RMul(RDiv(RSub(At(fp, j + 1), At(fp, j)),
                                RSub(At(xp, j + 1), At(xp, j))),
                           RSub(x, At(xp, j))))

(***************************************************************************)
(* The measurements.                                                       *)
(***************************************************************************)
Raised == [tag |-> "raised"]       \* an exception left the try block

\* df_work = df.copy(); df_work['Time [s]'] = df_work['Time [ms]'] / 1000.0
DfWork(d) ==
    Array([i \in 1..Len(d) |-> d[i] @@ (TimeS :> RDiv(d[i][TimeMs], R(1000)))])

\* FrameAfter with df_work = df, no copy: the seconds column lands in the caller's frame
FrameAfter_Alias(d) == IF Missing(d, {TimeMs}) THEN d ELSE DfWork(d)

\* the caller's frame after a measurement: df_work is df.copy(), another object, so
\* assigning df_work['Time [s]'] leaves the caller's frame as it was
FrameAfter(d) == d

\* the locator the use_interpolation flag selects, always searched upwards
Locate(d, target_value, value_column, use_interpolation) ==
    IF use_interpolation
    THEN find_crossing_time_with_interpolation(d, target_value, value_column, TimeS, "up")
    ELSE find_nearest_value(d, target_value, value_column, TimeS, "up")

\* df_work[df_work['Time [s]'] >= start_time]
AfterStart(df_work, start_time) ==
    SelectSeq(df_work, LAMBDA row : RGe(row[TimeS], start_time))

\* df_work[(df_work['Time [s]'] >= start_time) & (df_work['Time [s]'] <= end_time)]
AccelerationData(df_work, start_time, end_time) ==
    SelectSeq(df_work, LAMBDA row :
        RGe(row[TimeS], start_time) /\ RLe(row[TimeS], end_time))

\* np.sum(avg_speeds * time_diffs) over the rows of d
TrapezoidDistance(d) ==
    np_sum(Products(PairAverages(SpeedsMs(d)), np_diff(Values(d, TimeS))))

\* Actual reporting the requested value in both modes
Actual_Requested(use_interpolation, requested, located) == requested

\* the boundary value reported: the requested one when interpolating, else the
\* value_after the locator returned
Actual(use_interpolation, requested, located) ==
    IF use_interpolation THEN requested ELSE located[3]

\* SliceTooShort accepting a slice of one sample: len(acceleration_data) < 1
SliceTooShort_One(acceleration_data) == Len(acceleration_data) < 1

\* len(acceleration_data) < 2
SliceTooShort(acceleration_data) == Len(acceleration_data) < 2

\* the body of calculate_speed_acceleration from the slice on
SpeedResult(acceleration_data, start, end, speed_from, speed_to, use_interpolation) ==
    IF SliceTooShort(acceleration_data) THEN None
    ELSE
    Let(<<SpeedsMs(acceleration_data), RSub(end[1], start[1])>>, LAMBDA v :
        \* v[1] is speeds_ms, v[2] is acceleration_time
        [tag |-> "dict",
         filename |-> "uploaded_file",
         start_speed |-> Actual(use_interpolation, speed_from, start),
         end_speed |-> Actual(use_interpolation, speed_to, end),
         time |-> v[2],
         distance |-> TrapezoidDistance(acceleration_data),
         avg_acceleration |->
             IF RGt(v[2], R(0))
             THEN RDiv(RSub(At(v[1], Len(v[1]) - 1), At(v[1], 0)), v[2])
             ELSE R(0),
         start_time |-> start[1],
         end_time |-> end[1]])

speed_try(d, speed_from, speed_to, use_interpolation) ==
    IF Missing(d, {TimeMs, SpeedCol}) THEN Raised
    ELSE
    Let(DfWork(d), LAMBDA df_work :
    Let(Locate(df_work, speed_from, SpeedCol, use_interpolation), LAMBDA start :
        IF start = IndexError THEN Raised
        ELSE IF start[1] = NoneT THEN None
        ELSE
        Let(AfterStart(df_work, start[1]), LAMBDA df_after_start :
            IF Len(df_after_start) = 0 THEN None
            ELSE
            Let(Locate(df_after_start, speed_to, SpeedCol, use_interpolation), LAMBDA end :
                IF end[1] = NoneT THEN None
                ELSE
                Let(AccelerationData(df_work, start[1], end[1]), LAMBDA acceleration_data :
                    SpeedResult(acceleration_data, start, end, speed_from, speed_to,
                                use_interpolation))))))

\* calculate_speed_acceleration without the except branch: the exception leaves it
calculate_speed_acceleration_NoTry(d, speed_from, speed_to, use_interpolation) ==
    speed_try(d, speed_from, speed_to, use_interpolation)

\* try: ... except Exception: st.error(...); return None
calculate_speed_acceleration(d, speed_from, speed_to, use_interpolation) ==
    Let(speed_try(d, speed_from, speed_to, use_interpolation), LAMBDA r :
        IF r = Raised THEN None ELSE r)

\* the body of calculate_rpm_acceleration from the slice on
RpmResult(df_work, acceleration_data, start, end, rpm_from, rpm_to, use_interpolation) ==
    IF SliceTooShort(acceleration_data) THEN None
    ELSE IF Missing(acceleration_data, {SpeedCol}) THEN Raised
    ELSE
    [tag |-> "dict",
     filename |-> "uploaded_file",
     start_rpm |-> Actual(use_interpolation, rpm_from, start),
     end_rpm |-> Actual(use_interpolation, rpm_to, end),
     start_speed |-> np_interp(start[1], Values(df_work, TimeS), Values(df_work, SpeedCol)),
     end_speed |-> np_interp(end[1], Values(df_work, TimeS), Values(df_work, SpeedCol)),
     time |-> RSub(end[1], start[1]),
     distance |-> TrapezoidDistance(acceleration_data),
     start_time |-> start[1],
     end_time |-> end[1]]

rpm_try(d, rpm_from, rpm_to, use_interpolation) ==
    IF Missing(d, {TimeMs, RpmCol}) THEN Raised
    ELSE
    Let(DfWork(d), LAMBDA df_work :
    Let(Locate(df_work, rpm_from, RpmCol, use_interpolation), LAMBDA start :
        IF start = IndexError THEN Raised
        ELSE IF start[1] = NoneT THEN None
        ELSE
        Let(AfterStart(df_work, start[1]), LAMBDA df_after_start :
            IF Len(df_after_start) = 0 THEN None
            ELSE
            Let(Locate(df_after_start, rpm_to, RpmCol, use_interpolation), LAMBDA end :
                IF end[1] = NoneT THEN None
                ELSE
                Let(AccelerationData(df_work, start[1], end[1]), LAMBDA acceleration_data :
                    RpmResult(df_work, acceleration_data, start, end, rpm_from, rpm_to,
                              use_interpolation))))))

calculate_rpm_acceleration(d, rpm_from, rpm_to, use_interpolation) ==
    Let(rpm_try(d, rpm_from, rpm_to, use_interpolation), LAMBDA r :
        IF r = Raised THEN None ELSE r)

\* np.cumsum(avg_speeds * time_diffs) over the rows of d
CumulativeDistance(d) ==
    Let(Array(Products(PairAverages(SpeedsMs(d)), np_diff(Values(d, TimeS)))),
        LAMBDA steps : Array(np_cumsum(steps)))

\* DistanceEndTime between the times one pair earlier: times[target_idx - 1] and
\* times[target_idx]
DistanceEndTime_Shifted(times, cumulative_distance, target_idx, target_distance) ==
    Let(<<At(cumulative_distance, target_idx - 1), At(cumulative_distance, target_idx),
          At(times, target_idx - 1), At(times, target_idx)>>, LAMBDA v :
        IF v[2] = v[1] THEN v[3]
        ELSE RAdd(v[3], RMul(RDiv(RSub(target_distance, v[1]), RSub(v[2], v[1])),
                             RSub(v[4], v[3]))))

\* the interpolated end time of calculate_distance_time, target_idx > 0
DistanceEndTime(times, cumulative_distance, target_idx, target_distance) ==
    Let(<<At(cumulative_distance, target_idx - 1), At(cumulative_distance, target_idx),
          At(times, target_idx), At(times, target_idx + 1)>>, LAMBDA v :
        \* v is <<dist_before, dist_after, time_before, time_after>>
        IF v[2] = v[1] THEN v[3]
        ELSE RAdd(v[3], RMul(RDiv(RSub(target_distance, v[1]), RSub(v[2], v[1])),
                             RSub(v[4], v[3]))))

\* the body of calculate_distance_time from the end time on
DistanceResult(df_work, start, end_time, start_speed, target_distance, use_interpolation) ==
    Let(RSub(end_time, start[1]), LAMBDA total_time :
        [tag |-> "dict",
         filename |-> "uploaded_file",
         start_speed |-> Actual(use_interpolation, start_speed, start),
         end_speed |-> np_interp(end_time, Values(df_work, TimeS),
                                 Values(df_work, SpeedCol)),
         distance |-> target_distance,
         time |-> total_time,
         avg_speed |-> IF RGt(total_time, R(0))
                       THEN RMul(RDiv(target_distance, total_time), <<18, 5>>)
                       ELSE R(0),
         start_time |-> start[1],
         end_time |-> end_time])

distance_try(d, start_speed, target_distance, use_interpolation) ==
    IF Missing(d, {TimeMs, SpeedCol}) THEN Raised
    ELSE
    Let(DfWork(d), LAMBDA df_work :
    Let(Locate(df_work, start_speed, SpeedCol, use_interpolation), LAMBDA start :
        IF start = IndexError THEN Raised
        ELSE IF start[1] = NoneT THEN None
        ELSE
        Let(AfterStart(df_work, start[1]), LAMBDA df_after_start :
            IF Len(df_after_start) < 2 THEN None
            ELSE
            Let(CumulativeDistance(df_after_start), LAMBDA cumulative_distance :
            Let([i \in 1..Len(cumulative_distance) |->
                    RGe(cumulative_distance[i], target_distance)], LAMBDA mask :
                IF ~np_any(mask) THEN None
                ELSE
                Let(np_argmax(mask), LAMBDA target_idx :
                    IF target_idx = 0 THEN None
                    ELSE
                    DistanceResult(df_work, start,
                        DistanceEndTime(Values(df_after_start, TimeS), cumulative_distance,
                                        target_idx, target_distance),
                        start_speed, target_distance, use_interpolation)))))))

calculate_distance_time(d, start_speed, target_distance, use_interpolation) ==
    Let(distance_try(d, start_speed, target_distance, use_interpolation), LAMBDA r :
        IF r = Raised THEN None ELSE r)

(***************************************************************************)
(* Inputs.  A series is a sequence of rows sorted ascending by time        *)
(* (equal timestamps allowed), as the loader hands it over.  Enumerated:   *)
(* short series over small value ranges (speed varied with the RPM held,   *)
(* and RPM varied together with a two-valued speed), series whose speed is *)
(* linear in time, and the three example series of the specification's     *)
(* section 8.  Timestamps step by 500 ms, RPM by 1000 1/min.               *)
(***************************************************************************)
Row(ms, v, r) == (TimeMs :> R(ms)) @@ (SpeedCol :> R(v)) @@ (RpmCol :> R(r))

NonDecreasing(n) ==
    {t \in [1..n -> 0..MaxTick] : \A i \in 1..(n - 1) : t[i] <= t[i + 1]}

SeriesOver(n, speeds, rpms) ==
    {[i \in 1..n |-> Row(500 * t[i], v[i], 1000 * r[i])] :
        t \in NonDecreasing(n), v \in [1..n -> speeds], r \in [1..n -> rpms]}

GenericSeries ==
    UNION {SeriesOver(n, 0..MaxSpeed, {0}) \cup SeriesOver(n, 0..1, 0..MaxRpm) :
           n \in 0..MaxLen}

\* speed_kmh(t) = s * t sampled at the integer seconds t0 .. t0 + n - 1
LinearSeries(s, t0, n) ==
    [i \in 1..n |-> Row(1000 * (t0 + i - 1), s * (t0 + i - 1), 1000 * (i - 1))]

LinearFamily ==
    {LinearSeries(s, t0, n) : s \in 1..MaxSlope, t0 \in 0..MaxLinStart, n \in 2..MaxLinLen}

Ramp == [i \in 1..11 |-> Row(1000 * (i - 1), 10 * (i - 1), 500 * (i - 1))]
Linear36 == LinearSeries(36, 0, 11)
Const50 == [i \in 1..11 |-> Row(1000 * (i - 1), 50, 3000)]

ExampleSeries == {Ramp, Linear36, Const50}
ExampleTargets == {24, 25, 26, 36, 50, 72, 150}

SampleValues(d, column) ==
    {d[i][column][1] : i \in {j \in 1..Len(d) : column \in DOMAIN d[j]}}

SmallTargets(column) ==
    IF column = SpeedCol THEN 0..MaxSpeed ELSE {500 * k : k \in 0..(2 * MaxRpm)}

\* the thresholds a call is tried with
Targets(d, column) ==
    IF d \in ExampleSeries THEN SampleValues(d, column) \cup ExampleTargets
    ELSE SmallTargets(column) \cup SampleValues(d, column)

\* the target distances a call is tried with, in metres
DistanceTargets(d) ==
    IF d \in ExampleSeries THEN {R(15), R(25), R(100)}
    ELSE {RMul(R(q), <<5, 72>>) : q \in 0..MaxDist}

\* the frame d without the column c
Drop(d, c) == [i \in 1..Len(d) |-> [k \in (DOMAIN d[i]) \ {c} |-> d[i][k]]]

\* frames lacking one of the required columns
LackingSeries ==
    {Drop(d, c) : d \in {Ramp, Const50} \cup SeriesOver(2, 0..1, 0..1),
                  c \in {TimeMs, SpeedCol, RpmCol}}

\* any frame handed to a function: complete, empty, or lacking a column
AnySeries ==
    LackingSeries \cup {Ramp, Const50} \cup UNION {SeriesOver(n, 0..1, 0..1) : n \in 0..2}

(***************************************************************************)
(* The state machine.  df is the uploaded series; a call of one of the     *)
(* five functions records its arguments in call, its value in ret and the  *)
(* fate of an exception in exc; Rerun is the next run of the script.       *)
(***************************************************************************)
Idle == [op |-> "idle"]

\* a locator's returned tuple, as the value of ret
Tuple(r) == [tag |-> "tuple", value |-> r]

Init ==
    /\ df \in GenericSeries \cup LinearFamily \cup ExampleSeries
    /\ call = Idle
    /\ ret = None
    /\ exc = "none"

CallInterpolation ==
    /\ call = Idle
    /\ \E column \in {SpeedCol, RpmCol}, direction \in {"up", "down"} :
       \E target \in Targets(df, column) :
        /\ call' = [op |-> "find_crossing_time_with_interpolation",
                    target_value |-> R(target), value_column |-> column,
                    direction |-> direction]
        /\ ret' = IF Missing(df, {TimeMs, column}) THEN Raised
                  ELSE Tuple(find_crossing_time_with_interpolation(
                                 DfWork(df), R(target), column, TimeS, direction))
        /\ exc' = IF Missing(df, {TimeMs, column}) THEN "KeyError" ELSE "none"
    /\ UNCHANGED df

CallNearest ==
    /\ call = Idle
    /\ \E column \in {SpeedCol, RpmCol}, direction \in {"up", "down"} :
       \E target \in Targets(df, column) :
        LET r == IF Missing(df, {TimeMs, column}) THEN KeyError
                 ELSE find_nearest_value(DfWork(df), R(target), column, TimeS, direction)
        IN  /\ call' = [op |-> "find_nearest_value",
                        target_value |-> R(target), value_column |-> column,
                        direction |-> direction]
            /\ ret' = IF r \in {IndexError, KeyError} THEN Raised ELSE Tuple(r)
            /\ exc' = IF r \in {IndexError, KeyError} THEN r[1] ELSE "none"
    /\ UNCHANGED df

CallSpeed ==
    /\ call = Idle
    /\ \E speed_from \in Targets(df, SpeedCol), speed_to \in Targets(df, SpeedCol),
          use_interpolation \in BOOLEAN :
        /\ call' = [op |-> "calculate_speed_acceleration",
                    from |-> R(speed_from), to |-> R(speed_to),
                    use_interpolation |-> use_interpolation]
        /\ ret' = calculate_speed_acceleration(
                      df, R(speed_from), R(speed_to), use_interpolation)
        /\ exc' = IF speed_try(df, R(speed_from), R(speed_to), use_interpolation) = Raised
                  THEN "st.error" ELSE "none"
    /\ df' = FrameAfter(df)

CallRpm ==
    /\ call = Idle
    /\ \E rpm_from \in Targets(df, RpmCol), rpm_to \in Targets(df, RpmCol),
          use_interpolation \in BOOLEAN :
        /\ call' = [op |-> "calculate_rpm_acceleration",
                    from |-> R(rpm_from), to |-> R(rpm_to),
                    use_interpolation |-> use_interpolation]
        /\ ret' = calculate_rpm_acceleration(df, R(rpm_from), R(rpm_to), use_interpolation)
        /\ exc' = IF rpm_try(df, R(rpm_from), R(rpm_to), use_interpolation) = Raised
                  THEN "st.error" ELSE "none"
    /\ df' = FrameAfter(df)

CallDistance ==
    /\ call = Idle
    /\ \E start_speed \in Targets(df, SpeedCol), target_distance \in DistanceTargets(df),
          use_interpolation \in BOOLEAN :
        /\ call' = [op |-> "calculate_distance_time",
                    start_speed |-> R(start_speed), target_distance |-> target_distance,
                    use_interpolation |-> use_interpolation]
        /\ ret' = calculate_distance_time(
                      df, R(start_speed), target_distance, use_interpolation)
        /\ exc' = IF distance_try(df, R(start_speed), target_distance, use_interpolation)
                         = Raised
                  THEN "st.error" ELSE "none"
    /\ df' = FrameAfter(df)

Rerun ==
    /\ call # Idle
    /\ call' = Idle
    /\ ret' = None
    /\ exc' = "none"
    /\ UNCHANGED df

Next ==
    \/ CallInterpolation
    \/ CallNearest
    \/ CallSpeed
    \/ CallRpm
    \/ CallDistance
    \/ Rerun

Spec == Init /\ [][Next]_vars

\* the functions called directly, also with frames main would reject (line 337)
InitAny ==
    /\ df \in AnySeries
    /\ call = Idle
    /\ ret = None
    /\ exc = "none"

SpecAny == InitAny /\ [][Next]_vars

(***************************************************************************)
(* Vocabulary of the properties, read off the uploaded series df.          *)
(***************************************************************************)
N == Len(df)
Sec(i) == RDiv(df[i + 1][TimeMs], R(1000))          \* time of sample i, seconds
Val(column, i) == df[i + 1][column]                 \* value of sample i

Satisfies(column, i, target, direction) ==
    IF direction = "up" THEN RGe(Val(column, i), target) ELSE RLe(Val(column, i), target)

\* the crossing index: the first sample satisfying the comparison, if any
Crossing(column, target, direction) ==
    {k \in 0..(N - 1) :
        /\ Satisfies(column, k, target, direction)
        /\ \A j \in 0..(k - 1) : ~Satisfies(column, j, target, direction)}

Sample(column, i) == <<Sec(i), Val(column, i), Val(column, i)>>

StrictTimes == \A i \in 0..(N - 2) : RLt(Sec(i), Sec(i + 1))

IsInterpolation == call.op = "find_crossing_time_with_interpolation"
IsNearest == call.op = "find_nearest_value"
IsSpeed == call.op = "calculate_speed_acceleration"
IsRpm == call.op = "calculate_rpm_acceleration"
IsDistance == call.op = "calculate_distance_time"

(***************************************************************************)
(* C1.  Interpolated locate, either direction: when the crossing index k   *)
(* is > 0 and value[k-1] # value[k], the result is                         *)
(*   time = time[k-1] + (target - value[k-1]) / (value[k] - value[k-1])    *)
(*          * (time[k] - time[k-1]),                                       *)
(*   valueBefore = value[k-1], valueAfter = value[k];                      *)
(* values 0,10,...,100 at times 0..10 and target 25 give 2.5, 20, 30.      *)
(***************************************************************************)
C1_InterpolatedCrossing ==
    IsInterpolation =>
        /\ \A k \in Crossing(call.value_column, call.target_value, call.direction) :
            (k > 0 /\ Val(call.value_column, k - 1) # Val(call.value_column, k)) =>
                ret.value =
                    <<RAdd(Sec(k - 1),
                           RMul(RDiv(RSub(call.target_value, Val(call.value_column, k - 1)),
                                     RSub(Val(call.value_column, k),
                                          Val(call.value_column, k - 1))),
                                RSub(Sec(k), Sec(k - 1)))),
                      Val(call.value_column, k - 1),
                      Val(call.value_column, k)>>
        /\ (df = Ramp /\ call.value_column = SpeedCol /\ call.direction = "up"
              /\ call.target_value = R(25))
            => ret.value = <<<<5, 2>>, R(20), R(30)>>

C1_Witness ==
    /\ IsInterpolation
    /\ df = Ramp /\ call.value_column = SpeedCol /\ call.direction = "up"
    /\ call.target_value = R(25)
    /\ ret.value = <<<<5, 2>>, R(20), R(30)>>

(***************************************************************************)
(* C2.  Nearest locate: with crossing index k > 0 the result is sample     *)
(* k-1 if |value[k-1] - target| < |value[k] - target| strictly and sample  *)
(* k otherwise (ties go to k); with k = 0 it is sample 0; valueBefore and  *)
(* valueAfter both equal the chosen sample's value.  On 0,10,...,100:      *)
(* target 24 gives the sample 20, targets 25 and 26 the sample 30.         *)
(***************************************************************************)
C2_NearestSample ==
    IsNearest =>
        /\ \A k \in Crossing(call.value_column, call.target_value, call.direction) :
            ret.value =
                  IF k > 0 /\ RLt(RAbs(RSub(Val(call.value_column, k - 1), call.target_value)),
                                  RAbs(RSub(Val(call.value_column, k), call.target_value)))
                  THEN Sample(call.value_column, k - 1)
                  ELSE Sample(call.value_column, k)
        /\ (df = Ramp /\ call.value_column = SpeedCol /\ call.direction = "up") =>
            /\ call.target_value = R(24) => ret.value = <<R(2), R(20), R(20)>>
            /\ call.target_value = R(25) => ret.value = <<R(3), R(30), R(30)>>
            /\ call.target_value = R(26) => ret.value = <<R(3), R(30), R(30)>>

\* a tie between the bracketing samples, resolved to the crossing-index sample
C2_Witness ==
    /\ IsNearest
    /\ df = Ramp /\ call.value_column = SpeedCol /\ call.direction = "up"
    /\ call.target_value = R(25)
    /\ ret.value = <<R(3), R(30), R(30)>>

(***************************************************************************)
(* C3.  When no sample of a non-empty series satisfies the comparison,     *)
(* interpolated locate returns none in all three places, and nearest       *)
(* locate returns the last sample (up) or the first sample (down); nearest *)
(* locate on a non-empty series never returns none.                        *)
(***************************************************************************)
C3_NotFoundOrClamp ==
    /\ (IsInterpolation /\ N >= 1
          /\ Crossing(call.value_column, call.target_value, call.direction) = {})
        => ret.value = <<NoneT, NoneT, NoneT>>
    /\ (IsNearest /\ N >= 1) =>
        /\ exc = "none"
        /\ ret.tag = "tuple"
        /\ ret.value[1] # NoneT /\ ret.value[2] # NoneT /\ ret.value[3] # NoneT
        /\ Crossing(call.value_column, call.target_value, call.direction) = {}
            => ret.value = IF call.direction = "up" THEN Sample(call.value_column, N - 1)
                                                    ELSE Sample(call.value_column, 0)

\* nearest locate clamps to the last of several samples
C3_Witness ==
    /\ IsNearest
    /\ df = Ramp /\ call.value_column = SpeedCol /\ call.direction = "up"
    /\ call.target_value = R(150)
    /\ ret.value = <<R(10), R(100), R(100)>>

(***************************************************************************)
(* C4.  Interpolated locate, either direction: when the first sample       *)
(* already satisfies the comparison the result is the first sample's time  *)
(* with valueBefore = valueAfter = the first sample's value, also when the *)
(* target differs from that value.                                         *)
(***************************************************************************)
C4_FirstSampleSatisfies ==
    (IsInterpolation /\ N >= 1
       /\ Satisfies(call.value_column, 0, call.target_value, call.direction))
    => ret.value = <<Sec(0), Val(call.value_column, 0), Val(call.value_column, 0)>>

\* the first sample lies strictly beyond the target, and later samples differ
C4_Witness ==
    /\ IsInterpolation /\ N >= 2
    /\ Satisfies(call.value_column, 0, call.target_value, call.direction)
    /\ Val(call.value_column, 0) # call.target_value
    /\ Val(call.value_column, 1) # Val(call.value_column, 0)
    /\ RGt(Sec(0), R(0))
    /\ ret.value = <<Sec(0), Val(call.value_column, 0), Val(call.value_column, 0)>>

(***************************************************************************)
(* Vocabulary of the measurement properties.                               *)
(***************************************************************************)
IsThresholds == IsSpeed \/ IsRpm
Tracked == IF IsRpm THEN RpmCol ELSE SpeedCol      \* the channel the call tracks

\* the samples with startTime <= time <= endTime
Within(start_time, end_time) ==
    {i \in 0..(N - 1) : RGe(Sec(i), start_time) /\ RLe(Sec(i), end_time)}

\* the slopes s >= 1 for which speed_kmh(t) = s * t at consecutive integer seconds
Slopes ==
    {s \in 1..(IF N = 0 THEN 0 ELSE Val(SpeedCol, N - 1)[1]) :
        /\ \A i \in 0..(N - 1) : Sec(i)[2] = 1 /\ Val(SpeedCol, i) = RMul(R(s), Sec(i))
        /\ \A i \in 0..(N - 2) : Sec(i + 1) = RAdd(Sec(i), R(1))}

(***************************************************************************)
(* C5.  Speed thresholds on a series with speed_kmh(t) = s * t sampled at  *)
(* integer seconds, fromValue and toValue the speeds of samples i < j:     *)
(* elapsedTime = j - i, averageAcceleration = s / 3.6 and                  *)
(* distance = ((from + to) / 2 / 3.6) * (j - i), in both modes; s = 36,    *)
(* from = 36, to = 72 give 1, 10 and 15.                                   *)
(***************************************************************************)
C5_LinearSeries ==
    IsSpeed =>
        /\ \A s \in Slopes : \A i \in 0..(N - 1), j \in 0..(N - 1) :
            (i < j /\ call.from = Val(SpeedCol, i) /\ call.to = Val(SpeedCol, j)) =>
                /\ ret.tag = "dict"
                /\ ret.time = R(j - i)
                /\ ret.avg_acceleration = RDiv(R(s), <<18, 5>>)
                /\ ret.distance = RMul(RDiv(RDiv(RAdd(call.from, call.to), R(2)), <<18, 5>>),
                                       R(j - i))
        /\ (df = Linear36 /\ call.from = R(36) /\ call.to = R(72)) =>
            /\ ret.tag = "dict"
            /\ ret.time = R(1) /\ ret.avg_acceleration = R(10) /\ ret.distance = R(15)

C5_Witness ==
    /\ IsSpeed /\ ~call.use_interpolation
    /\ df = Linear36 /\ call.from = R(36) /\ call.to = R(72)
    /\ ret.tag = "dict"
    /\ ret.time = R(1) /\ ret.avg_acceleration = R(10) /\ ret.distance = R(15)

(***************************************************************************)
(* C6.  On a constant-speed series (every sample has speed v, at least two *)
(* samples, strictly increasing times) the speed measurement from v to v   *)
(* - as claimed: returns a record with elapsedTime 0 and distance 0;       *)
(* - as the code has it: returns NotFound, the inclusive slice from the    *)
(*   first sample's time to itself holding one sample.                     *)
(***************************************************************************)
C6_Case ==
    /\ IsSpeed /\ N >= 2 /\ StrictTimes
    /\ \A i \in 0..(N - 1) : Val(SpeedCol, i) = call.from
    /\ call.to = call.from

C6_Original ==
    C6_Case => (ret.tag = "dict" /\ ret.time = R(0) /\ ret.distance = R(0))

C6_ConstantSpeedNotFound == C6_Case => ret = None

C6_Witness ==
    /\ C6_Case /\ df = Const50 /\ call.from = R(50) /\ call.use_interpolation
    /\ ret = None

(***************************************************************************)
(* C7.  Consistency of the two measurements: whenever the speed            *)
(* measurement (from < to) returns a record with distance d and            *)
(* elapsedTime T, the distance measurement with startSpeed = from,         *)
(* targetDistance = d and the same mode returns a record with the same     *)
(* elapsedTime.  Stated for the series with strictly increasing            *)
(* timestamps, where it already fails.                                     *)
(***************************************************************************)
C7_Consistency ==
    (IsSpeed /\ StrictTimes /\ RLt(call.from, call.to) /\ ret.tag = "dict") =>
        Let(calculate_distance_time(df, call.from, ret.distance, call.use_interpolation),
            LAMBDA again : again.tag = "dict" /\ again.time = ret.time)

(***************************************************************************)
(* C8.  A thresholds measurement (speed or RPM, either mode) on a series   *)
(* with no tracked value >= fromValue                                      *)
(* - as claimed: returns NotFound (stated for fromValue < toValue, the     *)
(*   thresholds main passes on, where it already fails);                   *)
(* - as the code has it: returns NotFound in interpolated mode, and in     *)
(*   nearest mode when the last timestamp is not repeated; in nearest mode *)
(*   with the last timestamp repeated it returns a record of elapsedTime 0.*)
(***************************************************************************)
C8_Case ==
    /\ IsThresholds
    /\ \A i \in 0..(N - 1) : RLt(Val(Tracked, i), call.from)

LastTimeRepeated == N >= 2 /\ Sec(N - 2) = Sec(N - 1)

C8_Original == (C8_Case /\ RLt(call.from, call.to)) => ret = None

C8_StartNeverReached ==
    C8_Case =>
        IF call.use_interpolation \/ ~LastTimeRepeated
        THEN ret = None
        ELSE ret.tag = "dict" /\ ret.time = R(0)

\* nearest mode clamps the start to the last sample, and the outcome is NotFound
C8_Witness ==
    /\ C8_Case /\ ~call.use_interpolation /\ N >= 2 /\ StrictTimes
    /\ ret = None

(***************************************************************************)
(* C9.  A thresholds measurement whose start is found (some tracked value  *)
(* >= fromValue) while no sample with time >= startTime has tracked value  *)
(* >= toValue                                                              *)
(* - as claimed: returns NotFound in both modes (stated for the series     *)
(*   with strictly increasing timestamps, where it already fails);         *)
(* - as the code has it: returns NotFound in interpolated mode; in nearest *)
(*   mode the end locator clamps to the last sample, so the outcome is     *)
(*   NotFound only when fewer than two samples have time >= startTime, and *)
(*   otherwise a record whose endTime is the last sample's time and whose  *)
(*   end value is the last sample's tracked value, below toValue.          *)
(***************************************************************************)
StartTime == Locate(DfWork(df), call.from, Tracked, call.use_interpolation)[1]

C9_Case ==
    /\ IsThresholds
    /\ \E i \in 0..(N - 1) : RGe(Val(Tracked, i), call.from)
    /\ \A i \in 0..(N - 1) : RGe(Sec(i), StartTime) => RLt(Val(Tracked, i), call.to)

EndValue == IF IsRpm THEN ret.end_rpm ELSE ret.end_speed

C9_Original == (C9_Case /\ StrictTimes) => ret = None

C9_EndNeverReached ==
    C9_Case =>
        IF call.use_interpolation \/ Cardinality({i \in 0..(N - 1) : RGe(Sec(i), StartTime)}) < 2
        THEN ret = None
        ELSE /\ ret.tag = "dict"
             /\ ret.end_time = Sec(N - 1)
             /\ EndValue = Val(Tracked, N - 1)
             /\ RLt(EndValue, call.to)

\* nearest mode measures up to the end of the series
C9_Witness ==
    /\ C9_Case /\ ~call.use_interpolation /\ StrictTimes
    /\ ret.tag = "dict"
    /\ RLt(EndValue, call.to)

(***************************************************************************)
(* C10.  A thresholds measurement returns NotFound whenever both           *)
(* thresholds are located but fewer than two samples of the full series    *)
(* have startTime <= time <= endTime; and every record returned spans at   *)
(* least two such samples.                                                 *)
(***************************************************************************)
C10_SliceOfTwo ==
    IsThresholds =>
        /\ ret # None => Cardinality(Within(ret.start_time, ret.end_time)) >= 2
        /\ N >= 1 =>
            Let(StartTime, LAMBDA start_time :
                start_time # NoneT =>
                    Let(Locate(AfterStart(DfWork(df), start_time), call.to, Tracked,
                               call.use_interpolation)[1],
                        LAMBDA end_time :
                            (end_time # NoneT
                               /\ Cardinality(Within(start_time, end_time)) < 2)
                            => ret = None))

\* both crossings are interpolated inside one segment: the start falls between two
\* samples and the end is the later of them, the only sample of the slice
C10_Witness ==
    /\ IsThresholds /\ call.use_interpolation /\ N >= 2 /\ StrictTimes
    /\ RLt(call.from, call.to)
    /\ StartTime # NoneT
    /\ \A i \in 0..(N - 1) : Sec(i) # StartTime
    /\ Locate(AfterStart(DfWork(df), StartTime), call.to, Tracked, TRUE)[1] # NoneT
    /\ Cardinality(Within(StartTime,
                          Locate(AfterStart(DfWork(df), StartTime), call.to, Tracked,
                                 TRUE)[1])) = 1
    /\ ret = None

(***************************************************************************)
(* Vocabulary of the nearest search, read off the series: the sample the   *)
(* upward nearest search selects among the samples of an index interval S. *)
(***************************************************************************)
SetMin(S) == CHOOSE i \in S : \A j \in S : i <= j
SetMax(S) == CHOOSE i \in S : \A j \in S : j <= i

\* the samples with time >= t
After(t) == {i \in 0..(N - 1) : RGe(Sec(i), t)}

NearestIn(S, column, target) ==
    LET hits == {i \in S : RGe(Val(column, i), target)}
    IN  IF hits = {} THEN SetMax(S)
        ELSE LET k == SetMin(hits)
             IN  IF (k - 1) \in S
                    /\ RLt(RAbs(RSub(Val(column, k - 1), target)),
                           RAbs(RSub(Val(column, k), target)))
                 THEN k - 1 ELSE k

StartValue == IF IsRpm THEN ret.start_rpm ELSE ret.start_speed

(***************************************************************************)
(* C11.  Every record of a thresholds measurement reports as its start and *)
(* end boundary values: in interpolated mode exactly the requested         *)
(* fromValue and toValue; in nearest mode the tracked values of the        *)
(* samples the nearest search selected, on the full series for the start   *)
(* and on the samples with time >= startTime for the end (values that may  *)
(* lie below the requested thresholds).                                    *)
(***************************************************************************)
C11_ReportedBoundaries ==
    (IsThresholds /\ ret.tag = "dict") =>
        IF call.use_interpolation
        THEN StartValue = call.from /\ EndValue = call.to
        ELSE LET a == NearestIn(0..(N - 1), Tracked, call.from)
                 b == NearestIn(After(Sec(a)), Tracked, call.to)
             IN  /\ StartValue = Val(Tracked, a)
                 /\ EndValue = Val(Tracked, b)

\* nearest mode reports a start value below the requested threshold
C11_Witness ==
    /\ IsThresholds /\ ~call.use_interpolation /\ ret.tag = "dict"
    /\ RLt(call.from, call.to)
    /\ StrictTimes
    /\ \E i \in 0..(N - 1) : RGe(Val(Tracked, i), call.from)
    /\ RLt(StartValue, call.from)
    /\ EndValue # call.to

(***************************************************************************)
(* Vocabulary of linear interpolation, read off the series: value v lies   *)
(* on the piecewise-linear curve of a channel at time t.                   *)
(***************************************************************************)
OnCurve(column, t, v) ==
    \/ \E i \in 0..(N - 1) : Sec(i) = t /\ Val(column, i) = v
    \/ \E i \in 0..(N - 2) :
          /\ RLt(Sec(i), t) /\ RLt(t, Sec(i + 1))
          /\ v = RAdd(Val(column, i),
                      RMul(RSub(Val(column, i + 1), Val(column, i)),
                           RDiv(RSub(t, Sec(i)), RSub(Sec(i + 1), Sec(i)))))

(***************************************************************************)
(* C12.  In interpolated mode the tracked signal passes through the        *)
(* reported start boundary: for every record of a thresholds measurement   *)
(* with useInterpolation = true, the piecewise-linear interpolation of the *)
(* tracked channel over the full series at the record's startTime equals   *)
(* the reported start value fromValue.  Stated for the series with         *)
(* strictly increasing timestamps, where the interpolation is a function   *)
(* of time.                                                                *)
(***************************************************************************)
C12_SignalThroughStart ==
    (IsThresholds /\ call.use_interpolation /\ ret.tag = "dict" /\ StrictTimes)
    => OnCurve(Tracked, ret.start_time, StartValue)

(***************************************************************************)
(* C13.  Every record of the RPM measurement carries no average-           *)
(* acceleration field, and its start and end vehicle speeds are the linear *)
(* interpolation of the full series' speed channel at the record's         *)
(* startTime and endTime, in interpolated and in nearest mode alike.       *)
(***************************************************************************)
C13_RpmSpeeds ==
    (IsRpm /\ ret.tag = "dict") =>
        /\ "avg_acceleration" \notin DOMAIN ret
        /\ OnCurve(SpeedCol, ret.start_time, ret.start_speed)
        /\ OnCurve(SpeedCol, ret.end_time, ret.end_speed)

\* the start lies strictly between two samples of different speeds
C13_Witness ==
    /\ IsRpm /\ ret.tag = "dict" /\ StrictTimes
    /\ \A i \in 0..(N - 1) : Sec(i) # ret.start_time /\ Val(SpeedCol, i) # ret.start_speed
    /\ OnCurve(SpeedCol, ret.start_time, ret.start_speed)

(***************************************************************************)
(* Vocabulary of the trapezoidal distance, read off the series.            *)
(***************************************************************************)
\* metres covered between samples i and i + 1: ((v_i + v_{i+1}) / 2 / 3.6) * (t_{i+1} - t_i)
Seg(i) ==
    RMul(RDiv(RDiv(RAdd(Val(SpeedCol, i), Val(SpeedCol, i + 1)), R(2)), <<18, 5>>),
         RSub(Sec(i + 1), Sec(i)))

\* metres covered between samples a and b, a <= b
RECURSIVE SumSeg(_, _)
SumSeg(a, b) == IF a >= b THEN R(0) ELSE RAdd(SumSeg(a, b - 1), Seg(b - 1))

\* the start of the distance measurement, and the first sample of its suffix
DistStart == Locate(DfWork(df), call.start_speed, SpeedCol, call.use_interpolation)[1]
DistFirst == SetMin(After(DistStart))

(***************************************************************************)
(* C14.  The distance measurement returns NotFound exactly when, in either *)
(* mode: no sample has speed >= startSpeed; or fewer than two samples have *)
(* time >= startTime; or the cumulative trapezoidal distance over those    *)
(* samples never reaches targetDistance; or the first pair of them already *)
(* covers targetDistance (the first qualifying cumulative index is 0).  In *)
(* every other case it returns a record.                                   *)
(***************************************************************************)
C14_NoStart == \A i \in 0..(N - 1) : RLt(Val(SpeedCol, i), call.start_speed)
C14_ShortSuffix == Cardinality(After(DistStart)) < 2
C14_NeverReached ==
    \A k \in (DistFirst + 1)..(N - 1) : RLt(SumSeg(DistFirst, k), call.target_distance)
C14_FirstPairCovers == RGe(Seg(DistFirst), call.target_distance)

C14_NotFoundExactly ==
    IsDistance =>
        /\ ret = None \/ ret.tag = "dict"
        /\ ret = None <=>
              \/ C14_NoStart
              \/ C14_ShortSuffix
              \/ C14_NeverReached
              \/ C14_FirstPairCovers

\* the target is reached, but within the first pair of the suffix
C14_Witness ==
    /\ IsDistance /\ StrictTimes /\ N >= 3
    /\ ~C14_NoStart /\ ~C14_ShortSuffix /\ ~C14_NeverReached /\ C14_FirstPairCovers
    /\ RGt(call.target_distance, R(0))
    /\ ret = None

(***************************************************************************)
(* C15.  End time of the distance measurement.  With t[0..n] the times of  *)
(* the samples with time >= startTime, c[i] the trapezoidal distance from  *)
(* t[0] to t[i+1] and k the first index with c[k] >= targetDistance, every *)
(* record has k > 0 and                                                    *)
(*   endTime = t[k] + (targetDistance - c[k-1]) / (c[k] - c[k-1])          *)
(*                    * (t[k+1] - t[k]),                                   *)
(* where c[k-1] and c[k] are the distances at t[k] and t[k+1]; hence       *)
(* t[k] < endTime <= t[k+1].                                               *)
(***************************************************************************)
\* time of the j-th sample of the suffix, and cumulative distance c[i]
SuffixTime(j) == Sec(DistFirst + j)
Cum(i) == SumSeg(DistFirst, DistFirst + i + 1)

\* the first index whose cumulative distance reaches the target
ReachIdx ==
    SetMin({i \in 0..(N - DistFirst - 2) : RGe(Cum(i), call.target_distance)})

C15_EndTime ==
    (IsDistance /\ ret.tag = "dict") =>
        LET k == ReachIdx
        IN  /\ k > 0
            /\ ret.end_time =
                   RAdd(SuffixTime(k),
                        RMul(RDiv(RSub(call.target_distance, Cum(k - 1)),
                                  RSub(Cum(k), Cum(k - 1))),
                             RSub(SuffixTime(k + 1), SuffixTime(k))))
            /\ RLt(SuffixTime(k), ret.end_time)
            /\ RLe(ret.end_time, SuffixTime(k + 1))

\* the target is reached strictly inside a pair of samples
C15_Witness ==
    /\ IsDistance /\ ret.tag = "dict" /\ StrictTimes
    /\ RLt(SuffixTime(ReachIdx), ret.end_time)
    /\ RLt(ret.end_time, SuffixTime(ReachIdx + 1))
    /\ RLt(call.target_distance, Cum(ReachIdx))

(***************************************************************************)
(* C16.  Every record of the distance measurement has                      *)
(* time = endTime - startTime; distance = the requested targetDistance;    *)
(* avg_speed = targetDistance / time * 3.6 (0 when time <= 0); end_speed = *)
(* the linear interpolation of the full series' speed channel at endTime,  *)
(* in both modes; start_speed = the requested startSpeed in interpolated   *)
(* mode and the speed of the sample the nearest search selected in nearest *)
(* mode.                                                                   *)
(***************************************************************************)
C16_DistanceRecord ==
    (IsDistance /\ ret.tag = "dict") =>
        /\ ret.time = RSub(ret.end_time, ret.start_time)
        /\ ret.distance = call.target_distance
        /\ ret.avg_speed = IF RGt(ret.time, R(0))
                           THEN RMul(RDiv(call.target_distance, ret.time), <<18, 5>>)
                           ELSE R(0)
        /\ OnCurve(SpeedCol, ret.end_time, ret.end_speed)
        /\ ret.start_speed =
               IF call.use_interpolation THEN call.start_speed
               ELSE Val(SpeedCol, NearestIn(0..(N - 1), SpeedCol, call.start_speed))

\* nearest mode, a start sample below the requested speed, an end between samples
C16_Witness ==
    /\ IsDistance /\ ret.tag = "dict" /\ StrictTimes /\ ~call.use_interpolation
    /\ RLt(ret.start_speed, call.start_speed)
    /\ \A i \in 0..(N - 1) : Sec(i) # ret.end_time
    /\ RGt(ret.avg_speed, R(0))

(***************************************************************************)
(* C17.  None of the three measurements lets an exception reach its        *)
(* caller: for any frame, an empty one and one lacking a required column   *)
(* included, the value returned is a record or the NotFound marker None,   *)
(* and None differs from every record, one with all numeric fields 0       *)
(* included.  Checked under SpecAny.                                       *)
(***************************************************************************)
IsMeasurement == IsSpeed \/ IsRpm \/ IsDistance

C17_NoException ==
    IsMeasurement =>
        /\ ret # Raised
        /\ exc \in {"none", "st.error"}
        /\ ret = None \/ ret.tag = "dict"
        /\ (ret.tag = "dict" /\ ret.time = R(0) /\ ret.distance = R(0)) => ret # None

\* a KeyError caught: the frame lacks the speed column
C17_Witness ==
    /\ IsSpeed /\ N >= 2 /\ Missing(df, {SpeedCol}) /\ ~Missing(df, {TimeMs, RpmCol})
    /\ ret = None /\ exc = "st.error"

(***************************************************************************)
(* C18.  No locate or measurement call modifies the caller's series: after *)
(* any call, whatever it returns, the series has the samples, the values   *)
(* and the channels it had before; the seconds channel is added to a       *)
(* private copy only.                                                      *)
(***************************************************************************)
C18_SeriesUnchanged == [][df' = df]_vars

\* a measurement has returned a record, and the series has its three channels
C18_Witness ==
    /\ IsMeasurement /\ ret.tag = "dict" /\ N >= 2
    /\ \A i \in 1..N : DOMAIN df[i] = {TimeMs, SpeedCol, RpmCol}

(***************************************************************************)
(* C20.  The distance of every record of a thresholds measurement is the   *)
(* sum, over each consecutive pair of samples of the full series whose     *)
(* times lie in [startTime, endTime], of                                   *)
(*   ((v_i + v_{i+1}) / 2 / 3.6) * (t_{i+1} - t_i)                         *)
(* with v the vehicle speed in km/h, also when RPM is the tracked channel. *)
(***************************************************************************)
C20_TrapezoidDistance ==
    (IsThresholds /\ ret.tag = "dict") =>
        LET slice == Within(ret.start_time, ret.end_time)
        IN  ret.distance = SumSeg(SetMin(slice), SetMax(slice))

\* RPM tracked over three or more samples, speeds and RPM values apart
C20_Witness ==
    /\ IsRpm /\ ret.tag = "dict" /\ StrictTimes
    /\ Cardinality(Within(ret.start_time, ret.end_time)) >= 3
    /\ RGt(ret.distance, R(0))
    /\ \A i \in 0..(N - 1) : i > 0 => Val(SpeedCol, i) # Val(RpmCol, i)
    /\ ret.distance = SumSeg(SetMin(Within(ret.start_time, ret.end_time)),
                             SetMax(Within(ret.start_time, ret.end_time)))

(***************************************************************************)
(* Vocabulary of the speed curve, for series with strictly increasing      *)
(* timestamps: the piecewise-linear value of a channel at a time within    *)
(* the series, and the area under the speed curve in metres.               *)
(***************************************************************************)
CurveAt(column, t) ==
    LET i == SetMax({j \in 0..(N - 1) : RLe(Sec(j), t)})
    IN  IF Sec(i) = t THEN Val(column, i)
        ELSE RAdd(Val(column, i),
                  RMul(RSub(Val(column, i + 1), Val(column, i)),
                       RDiv(RSub(t, Sec(i)), RSub(Sec(i + 1), Sec(i)))))

RMax(a, b) == IF RLt(a, b) THEN b ELSE a
RMin(a, b) == IF RLt(a, b) THEN a ELSE b

\* metres covered inside [a, b] on the segment from sample i to sample i + 1
AreaOn(i, a, b) ==
    LET lo == RMax(a, Sec(i))
        hi == RMin(b, Sec(i + 1))
    IN  IF RLt(lo, hi)
        THEN RMul(RDiv(RDiv(RAdd(CurveAt(SpeedCol, lo), CurveAt(SpeedCol, hi)), R(2)),
                       <<18, 5>>),
                  RSub(hi, lo))
        ELSE R(0)

\* metres covered inside [a, b] on the segments before sample n
RECURSIVE AreaBefore(_, _, _)
AreaBefore(n, a, b) ==
    IF n <= 0 THEN R(0) ELSE RAdd(AreaBefore(n - 1, a, b), AreaOn(n - 1, a, b))

Area(a, b) == AreaBefore(N - 1, a, b)

(***************************************************************************)
(* C21.  In interpolated mode the distance of every record of a thresholds *)
(* measurement is the area under the piecewise-linear speed curve (m/s)    *)
(* between the record's startTime and endTime, the partial segments        *)
(* between an interpolated boundary and its neighbouring sample included.  *)
(* Stated for the series with strictly increasing timestamps.              *)
(***************************************************************************)
C21_AreaUnderCurve ==
    (IsThresholds /\ call.use_interpolation /\ ret.tag = "dict" /\ StrictTimes)
    => ret.distance = Area(ret.start_time, ret.end_time)

(***************************************************************************)
(* C22.  Every record of the speed measurement is self-consistent:         *)
(* avg_acceleration = ((end_speed - start_speed) / 3.6) / time over the    *)
(* fields of that record, in interpolated and in nearest mode.  Stated for *)
(* the series with strictly increasing timestamps, whose records have      *)
(* time > 0.                                                               *)
(***************************************************************************)
C22_SelfConsistent ==
    (IsSpeed /\ ret.tag = "dict" /\ StrictTimes /\ RGt(ret.time, R(0)))
    => ret.avg_acceleration =
           RDiv(RDiv(RSub(ret.end_speed, ret.start_speed), <<18, 5>>), ret.time)

(***************************************************************************)
(* C23.  On a series with strictly increasing timestamps a thresholds      *)
(* measurement with fromValue >= toValue returns NotFound, in interpolated *)
(* and in nearest mode, tracking speed or RPM, though the functions do not *)
(* compare the two thresholds.                                             *)
(***************************************************************************)
C23_FromNotBelowTo ==
    (IsThresholds /\ StrictTimes /\ RGe(call.from, call.to)) => ret = None

\* nearest mode: the start snaps to the sample before the crossing, below both
\* thresholds, and the end search begins there
C23_Witness ==
    /\ IsThresholds /\ StrictTimes /\ ~call.use_interpolation
    /\ RGt(call.from, call.to)
    /\ \E k \in 1..(N - 1) :
          /\ k \in Crossing(Tracked, call.from, "up")
          /\ StartTime = Sec(k - 1)
          /\ RLt(Val(Tracked, k - 1), call.to)
    /\ ret = None

(***************************************************************************)
(* C24.  On a series with strictly increasing timestamps every record of   *)
(* any of the three measurements, in either mode, has                      *)
(*   time[first] <= startTime < endTime <= time[last],                     *)
(* so its elapsed time is strictly positive and the branches that guard    *)
(* the average acceleration and the average speed to 0 are not taken.      *)
(***************************************************************************)
C24_PositiveDuration ==
    (IsMeasurement /\ ret.tag = "dict" /\ StrictTimes) =>
        /\ RLe(Sec(0), ret.start_time)
        /\ RLt(ret.start_time, ret.end_time)
        /\ RLe(ret.end_time, Sec(N - 1))
        /\ RGt(ret.time, R(0))

\* a record whose boundaries lie strictly inside the series
C24_Witness ==
    /\ IsDistance /\ ret.tag = "dict" /\ StrictTimes
    /\ RLt(Sec(0), ret.start_time)
    /\ RLt(ret.start_time, ret.end_time)
    /\ RLt(ret.end_time, Sec(N - 1))
    /\ RGt(ret.avg_speed, R(0))

(***************************************************************************)
(* C25.  On a series with strictly increasing timestamps every record of a *)
(* thresholds measurement in interpolated mode has a genuinely             *)
(* interpolated end: the first sample with time >= startTime does not yet  *)
(* satisfy toValue (the end locator's crossing index in the suffix is > 0) *)
(* and the piecewise-linear interpolation of the tracked channel at        *)
(* endTime equals toValue.  When that first sample already satisfies       *)
(* toValue the outcome is NotFound.                                        *)
(***************************************************************************)
C25_InterpolatedEnd ==
    (IsThresholds /\ call.use_interpolation /\ StrictTimes /\ StartTime # NoneT) =>
        LET first == SetMin(After(StartTime))
        IN  IF RGe(Val(Tracked, first), call.to)
            THEN ret = None
            ELSE ret.tag = "dict" =>
                    /\ ret.start_time = StartTime
                    /\ CurveAt(Tracked, ret.end_time) = call.to

\* the end lies strictly between two samples
C25_Witness ==
    /\ IsThresholds /\ call.use_interpolation /\ StrictTimes /\ ret.tag = "dict"
    /\ \A i \in 0..(N - 1) : Sec(i) # ret.end_time
    /\ CurveAt(Tracked, ret.end_time) = call.to

(***************************************************************************)
(* C26.  Interpolated locate with crossing index k > 0: the bracketing     *)
(* values are never equal, value[k-1] < target <= value[k] for up          *)
(* (value[k-1] > target >= value[k] for down), so the flat-segment guard   *)
(* is not reached, the fraction lies in (0, 1] and no division by zero     *)
(* occurs; and in the distance measurement the cumulative distances around *)
(* the target differ likewise, c[k-1] < target <= c[k].  The returned time *)
(* - as claimed: satisfies time[k-1] < time <= time[k];                    *)
(* - as the code has it: satisfies time[k-1] <= time <= time[k], with      *)
(*   time[k-1] < time whenever time[k-1] < time[k]; two samples of one     *)
(*   timestamp give back that timestamp.                                   *)
(***************************************************************************)
\* the fraction of the segment before sample k at which the target is crossed
Fraction(k) ==
    RDiv(RSub(call.target_value, Val(call.value_column, k - 1)),
         RSub(Val(call.value_column, k), Val(call.value_column, k - 1)))

C26_Bracket(k) ==
    /\ IF call.direction = "up"
       THEN /\ RLt(Val(call.value_column, k - 1), call.target_value)
            /\ RLe(call.target_value, Val(call.value_column, k))
       ELSE /\ RGt(Val(call.value_column, k - 1), call.target_value)
            /\ RGe(call.target_value, Val(call.value_column, k))
    /\ Val(call.value_column, k - 1) # Val(call.value_column, k)
    /\ RGt(Fraction(k), R(0)) /\ RLe(Fraction(k), R(1))

C26_DistanceGap ==
    (IsDistance /\ ret.tag = "dict") =>
        /\ ReachIdx > 0
        /\ RLt(Cum(ReachIdx - 1), call.target_distance)
        /\ RLe(call.target_distance, Cum(ReachIdx))
        /\ RLt(SuffixTime(ReachIdx), SuffixTime(ReachIdx + 1))

C26_Original ==
    /\ IsInterpolation =>
          \A k \in Crossing(call.value_column, call.target_value, call.direction) :
              k > 0 => /\ C26_Bracket(k)
                       /\ RLt(Sec(k - 1), ret.value[1])
                       /\ RLe(ret.value[1], Sec(k))
    /\ C26_DistanceGap

C26_GuardsUnreached ==
    /\ IsInterpolation =>
          \A k \in Crossing(call.value_column, call.target_value, call.direction) :
              k > 0 => /\ C26_Bracket(k)
                       /\ RLe(Sec(k - 1), ret.value[1])
                       /\ RLe(ret.value[1], Sec(k))
                       /\ RLt(Sec(k - 1), Sec(k)) => RLt(Sec(k - 1), ret.value[1])
    /\ C26_DistanceGap

\* a downward crossing strictly inside a segment
C26_Witness ==
    /\ IsInterpolation /\ call.direction = "down"
    /\ \E k \in Crossing(call.value_column, call.target_value, "down") :
          /\ k > 0
          /\ RLt(Sec(k - 1), ret.value[1]) /\ RLt(ret.value[1], Sec(k))
          /\ RLt(Fraction(k), R(1))

====
